---------------------------- MODULE Spec2Model ----------------------------
(***************************************************************************)
(* Model of api/check_gemini_keys.py: a bounded pool of workers probes a   *)
(* list of API keys through one shared RateLimiter; main() tallies the     *)
(* outcomes as the futures complete.                                       *)
(*                                                                         *)
(* Text is a sequence of one-character strings, so that lower(), strip()   *)
(* and the substring test are computed and not assumed.  A JSON value is a *)
(* tagged record [t, v]; a dict is a sequence of <<key, value>> pairs.     *)
(***************************************************************************)
EXTENDS Integers, Sequences, FiniteSets, TLC

\* ------------------------------------------------------------------ bounds
MaxKeys == 3
MaxWorkers == 2
MaxInterval == 1
\* free readings of the clock stop here: late enough for a first call that
\* need not sleep and for a sleeper that wakes late; a later time is read only
\* by a sleeper reaching its target
MaxClock == MaxInterval + 1

\* ------------------------------------------------------------------- text
K_candidates == <<"c","a","n","d","i","d","a","t","e","s">>
K_content == <<"c","o","n","t","e","n","t">>
K_parts == <<"p","a","r","t","s">>
K_text == <<"t","e","x","t">>
K_error == <<"e","r","r","o","r">>
K_message == <<"m","e","s","s","a","g","e">>
K_status == <<"s","t","a","t","u","s">>
S_Hi == <<"H","i">>
S_Hi_ws == <<" ","H","i","\n">>
S_bad_key == <<"b","a","d"," ","k","e","y">>
S_limit == <<"l","i","m","i","t">>
S_RESOURCE_EXHAUSTED == <<"R","E","S","O","U","R","C","E","_","E","X","H","A","U","S","T","E","D">>
S_oops == <<"o","o","p","s">>
S_x == <<"x">>
T_empty == <<>>
T_denied == <<"d","e","n","i","e","d">>
T_abc == <<" ","a","b","c","\n">>
T_Quota == <<"Q","U","o","t","a"," ","h","i","t">>
T_quot == <<"q","u","o","t","e">>

\* str(exc) of the exceptions a probe can raise
E_request_failed == <<"r","e","q","u","e","s","t"," ","f","a","i","l","e","d">>
E_AttributeError == <<"n","o"," ","a","t","t","r","i","b","u","t","e"," ","'","g","e","t","'">>
E_KeyError == <<"0">>
E_TypeError == <<"n","o","t"," ","s","u","b","s","c","r","i","p","t","a","b","l","e">>

Whitespace == {" ", "\n", "\t", "\r"}

UpperToLower ==
    [c \in {"A","B","C","D","E","F","G","H","I","J","K","L","M",
            "N","O","P","Q","R","S","T","U","V","W","X","Y","Z"} |->
        CASE c = "A" -> "a" [] c = "B" -> "b" [] c = "C" -> "c" [] c = "D" -> "d"
          [] c = "E" -> "e" [] c = "F" -> "f" [] c = "G" -> "g" [] c = "H" -> "h"
          [] c = "I" -> "i" [] c = "J" -> "j" [] c = "K" -> "k" [] c = "L" -> "l"
          [] c = "M" -> "m" [] c = "N" -> "n" [] c = "O" -> "o" [] c = "P" -> "p"
          [] c = "Q" -> "q" [] c = "R" -> "r" [] c = "S" -> "s" [] c = "T" -> "t"
          [] c = "U" -> "u" [] c = "V" -> "v" [] c = "W" -> "w" [] c = "X" -> "x"
          [] c = "Y" -> "y" [] c = "Z" -> "z"]

\* str.lower()
Lower(s) ==
    [i \in 1..Len(s) |-> IF s[i] \in DOMAIN UpperToLower THEN UpperToLower[s[i]] ELSE s[i]]

\* sub in s
Contains(sub, s) ==
    \E i \in 1..(Len(s) - Len(sub) + 1) : SubSeq(s, i, i + Len(sub) - 1) = sub

\* str.strip()
Strip(s) ==
    LET keep == {i \in 1..Len(s) : s[i] \notin Whitespace}
    IN  IF keep = {} THEN <<>>
        ELSE LET lo == CHOOSE i \in keep : \A j \in keep : i <= j
                 hi == CHOOSE i \in keep : \A j \in keep : j <= i
             IN  SubSeq(s, lo, hi)

\* ------------------------------------------------------------- key lines
\* the characters of [A-Za-z0-9_\-], line 25
KeyChars ==
    DOMAIN UpperToLower \cup {UpperToLower[c] : c \in DOMAIN UpperToLower}
       \cup {"0","1","2","3","4","5","6","7","8","9","_","-"}

\* looks_like_key, lines 23-25: fullmatch of [A-Za-z0-9_\-]{20,}
looks_like_key(value) ==
    Len(value) >= 20 /\ \A k \in 1..Len(value) : value[k] \in KeyChars

\* The lines an input can hold.  A state names a line by a number: 1..MaxKeys
\* are well-formed keys that differ in their last character, the numbers after
\* them are the lines of BadLines.
KeyStem == <<"A","I","z","a","S","y","_","g","e","m","i","n","i","-","k","e","y","-","0">>
ValidKey(i) == KeyStem \o << <<"0","1","2","3","4","5","6","7","8","9">>[i + 1] >>

L_empty == <<>>
L_blank == <<" ">>
L_padded == ValidKey(1) \o <<" ">>
L_tabbed == KeyStem \o <<"\t", "1">>
L_short == KeyStem
L_badchar == KeyStem \o <<"!">>
BadLines == << L_empty, L_blank, L_padded, L_tabbed, L_short, L_badchar >>

LineIds == 1..(MaxKeys + Len(BadLines))
KeyText(k) == IF k <= MaxKeys THEN ValidKey(k) ELSE BadLines[k - MaxKeys]
LineOf(text) == CHOOSE k \in LineIds : KeyText(k) = text

\* die(), lines 18-20, as the value of the function that called it
Dies(msg) == [ok |-> FALSE, lines |-> <<>>, error |-> msg]
Loaded(lines) == [ok |-> TRUE, lines |-> lines, error |-> ""]

\* parse_args(): the positional input is absent, a path of a file with its
\* lines (each after rstrip("\n"), line 141), or any other string; --key is
\* absent (0) or a string
NoInput == [kind |-> "none", lines |-> <<>>]
FileInput(lines) == [kind |-> "file", lines |-> lines]
TextInput(k) == [kind |-> "text", lines |-> <<k>>]

\* bool(args.input), bool(args.key): None and "" are false
EmptyLines == {k \in LineIds : KeyText(k) = <<>>}

InputTruthy(input) ==
    \/ input.kind = "file"
    \/ input.kind = "text" /\ input.lines[1] \notin EmptyLines

KeyTruthy(key) == key # 0 /\ key \notin EmptyLines

\* load_keys, lines 130-146
load_keys(a) ==
    IF InputTruthy(a.input) /\ KeyTruthy(a.key) THEN Dies("either input or key")
    ELSE IF ~InputTruthy(a.input) /\ ~KeyTruthy(a.key) THEN Dies("no input")
    ELSE IF KeyTruthy(a.key) THEN Loaded(<<a.key>>)
    ELSE IF a.input.kind = "file"
         THEN IF a.input.lines = <<>> THEN Dies("file is empty")
              ELSE Loaded(a.input.lines)
    ELSE Loaded(a.input.lines)

\* validate_keys, lines 149-155, for one line: the error it dies with, or ""
LineError(line) ==
    IF Strip(line) = <<>> THEN "empty"
    ELSE IF line # Strip(line) \/ Contains(<<" ">>, line) \/ Contains(<<"\t">>, line)
         THEN "whitespace"
    ELSE IF ~looks_like_key(line) THEN "not a key"
    ELSE ""

\* LineError of every line an input can hold, worked out once
LineErrors == [k \in LineIds |-> LineError(KeyText(k))]

\* a validate_keys without the pattern test of lines 154-155
validate_keys_no_pattern(loaded) ==
    IF ~loaded.ok THEN loaded
    ELSE LET bad == {i \in 1..Len(loaded.lines) :
                        LineErrors[loaded.lines[i]] \in {"empty", "whitespace"}}
         IN  IF bad = {} THEN loaded
             ELSE Dies(LineErrors[loaded.lines[CHOOSE i \in bad : \A j \in bad : i <= j]])

\* validate_keys, lines 148-157: dies at the first line in error
validate_keys(loaded) ==
    IF ~loaded.ok THEN loaded
    ELSE LET bad == {i \in 1..Len(loaded.lines) : LineErrors[loaded.lines[i]] # ""}
         IN  IF bad = {} THEN loaded
             ELSE Dies(LineErrors[loaded.lines[CHOOSE i \in bad : \A j \in bad : i <= j]])

\* ------------------------------------------------------------------- JSON
JNull == [t |-> "null", v |-> <<>>]
JStr(s) == [t |-> "str", v |-> s]
JNum(n) == [t |-> "num", v |-> n]
JList(items) == [t |-> "list", v |-> items]
JDict(pairs) == [t |-> "dict", v |-> pairs]

\* the documents the remote end is taken to send (bodies are their serialisations)
D_valid == JDict(<< <<K_candidates, JList(<<JDict(<< <<K_content,
              JDict(<< <<K_parts, JList(<<JDict(<< <<K_text, JStr(S_Hi_ws)>> >>)>>)>> >>)>> >>)>>)>> >>)
D_error == JDict(<< <<K_error, JDict(<< <<K_message, JStr(S_bad_key)>> >>)>> >>)
D_exhausted == JDict(<< <<K_error, JDict(<< <<K_message, JStr(S_limit)>>,
                                            <<K_status, JStr(S_RESOURCE_EXHAUSTED)>> >>)>> >>)
D_error_str == JDict(<< <<K_error, JStr(S_oops)>> >>)
D_cand_str == JDict(<< <<K_candidates, JStr(S_x)>> >>)
D_cand_dict == JDict(<< <<K_candidates, JDict(<< <<K_text, JStr(S_x)>> >>)>> >>)
D_cand_num == JDict(<< <<K_candidates, JNum(1)>> >>)
D_content_list == JDict(<< <<K_candidates, JList(<<JDict(<< <<K_content, JList(<<JStr(S_x)>>)>> >>)>>)>> >>)
D_no_content == JDict(<< <<K_candidates, JList(<<JDict(<< <<K_status, JStr(S_x)>> >>)>>)>> >>)
D_empty_text == JDict(<< <<K_candidates, JList(<<JDict(<< <<K_content,
                   JDict(<< <<K_parts, JList(<<JDict(<< <<K_text, JStr(<<>>)>> >>)>>)>> >>)>> >>)>>)>>,
                         <<K_error, JDict(<< <<K_message, JStr(S_bad_key)>> >>)>> >>)
D_list == JList(<<JStr(S_x)>>)

JsonDocs ==
    << D_valid, D_error, D_exhausted, D_error_str, D_cand_str, D_cand_dict, D_cand_num,
       D_content_list, D_no_content, D_empty_text, D_list >>

\* the wire text of a document: what json.loads (line 60) parses back
EscapeChar(c) ==
    IF c = "\n" THEN <<"\\", "n">>
    ELSE IF c = "\"" THEN <<"\\", "\"">>
    ELSE <<c>>

RECURSIVE EscapeText(_)
EscapeText(s) ==
    IF s = <<>> THEN <<>> ELSE EscapeChar(Head(s)) \o EscapeText(Tail(s))

Digit(n) == <<"0","1","2","3","4","5","6","7","8","9">>[n + 1]

RECURSIVE Dumps(_), DumpItems(_), DumpPairs(_)
Dumps(x) ==
    CASE x.t = "null" -> <<"n","u","l","l">>
      [] x.t = "num"  -> <<Digit(x.v)>>
      [] x.t = "str"  -> <<"\"">> \o EscapeText(x.v) \o <<"\"">>
      [] x.t = "list" -> <<"[">> \o DumpItems(x.v) \o <<"]">>
      [] x.t = "dict" -> <<"{">> \o DumpPairs(x.v) \o <<"}">>

DumpItems(items) ==
    IF items = <<>> THEN <<>>
    ELSE Dumps(Head(items))
         \o (IF Len(items) > 1 THEN <<",">> ELSE <<>>)
         \o DumpItems(Tail(items))

DumpPairs(pairs) ==
    IF pairs = <<>> THEN <<>>
    ELSE <<"\"">> \o EscapeText(Head(pairs)[1]) \o <<"\"", ":">> \o Dumps(Head(pairs)[2])
         \o (IF Len(pairs) > 1 THEN <<",">> ELSE <<>>)
         \o DumpPairs(Tail(pairs))

\* json.loads(body): the document whose wire text the body is (white space
\* around it is allowed); JSONDecodeError (ok = FALSE) for any other text
DocTexts == [i \in 1..Len(JsonDocs) |-> Dumps(JsonDocs[i])]

json_loads(body) ==
    LET s == Strip(body)
        hits == {i \in 1..Len(JsonDocs) : DocTexts[i] = s}
    IN  IF hits = {} THEN [ok |-> FALSE, payload |-> JNull]
        ELSE [ok |-> TRUE, payload |-> JsonDocs[CHOOSE i \in hits : TRUE]]

\* ------------------------------------------------- Python value semantics
\* bool(x)
Truthy(x) ==
    CASE x.t = "null" -> FALSE
      [] x.t = "num"  -> x.v # 0
      [] OTHER        -> Len(x.v) > 0

\* x or d
OrDefault(x, d) == IF Truthy(x) THEN x ELSE d

\* d.get(key) of a dict
DictGet(d, key) ==
    LET hits == {i \in 1..Len(d.v) : d.v[i][1] = key}
    IN  IF hits = {} THEN JNull
        ELSE d.v[CHOOSE i \in hits : \A j \in hits : j <= i][2]

\* x[0] of a non-empty list or str (a dict has no key 0, a number no items)
Item0(x) == IF x.t = "str" THEN JStr(<<x.v[1]>>) ELSE x.v[1]

Item0Error(x) == IF x.t = "dict" THEN E_KeyError ELSE E_TypeError

Returns(text) == [kind |-> "return", text |-> text]
Raises(text) == [kind |-> "raise", text |-> text]
FallsThrough == [kind |-> "next", text |-> <<>>]

\* ------------------------------------------------------------- the Prober
\* is_exhausted, lines 51-55
T_quota == <<"q","u","o","t","a">>
T_resource_exhausted == Lower(S_RESOURCE_EXHAUSTED)

is_exhausted_no_lower(body, http_code) ==
    IF http_code = "429" THEN TRUE
    ELSE Contains(T_resource_exhausted, body) \/ Contains(T_quota, body)

is_exhausted(body, http_code) ==
    IF http_code = "429" THEN TRUE
    ELSE LET lowered == Lower(body)
         IN  Contains(T_resource_exhausted, lowered) \/ Contains(T_quota, lowered)

\* extract_response_text, lines 65-72: the first candidate's text
extract_candidates(payload) ==
    LET candidates == OrDefault(DictGet(payload, K_candidates), JList(<<>>))
    IN  IF ~Truthy(candidates) THEN FallsThrough
        ELSE IF candidates.t \in {"dict", "num"} THEN Raises(Item0Error(candidates))
        ELSE LET first == Item0(candidates)
        IN  IF first.t # "dict" THEN Raises(E_AttributeError)
        ELSE LET content == OrDefault(DictGet(first, K_content), JDict(<<>>))
        IN  IF content.t # "dict" THEN Raises(E_AttributeError)
        ELSE LET parts == OrDefault(DictGet(content, K_parts), JList(<<>>))
        IN  IF ~Truthy(parts) THEN FallsThrough
        ELSE IF parts.t \in {"dict", "num"} THEN Raises(Item0Error(parts))
        ELSE LET part == Item0(parts)
        IN  IF part.t # "dict" THEN FallsThrough
        ELSE LET text == DictGet(part, K_text)
        IN  IF text.t = "str" THEN Returns(Strip(text.v)) ELSE FallsThrough

\* extract_response_text, lines 73-78: error.message, else the raw body
extract_error(payload, body) ==
    LET error == OrDefault(DictGet(payload, K_error), JDict(<<>>))
    IN  IF error.t # "dict" THEN Raises(E_AttributeError)
        ELSE LET message == DictGet(error, K_message)
             IN  IF message.t = "str" THEN Returns(Strip(message.v))
                 ELSE Returns(Strip(body))

\* extract_response_text, lines 58-78
extract_response_text(body) ==
    LET parsed == json_loads(body)
    IN  IF ~parsed.ok THEN Returns(Strip(body))
        ELSE IF parsed.payload.t # "dict" THEN Returns(Strip(body))
        ELSE LET c == extract_candidates(parsed.payload)
             IN  IF c.kind = "next" THEN extract_error(parsed.payload, body) ELSE c

\* ---------------------------------------------------------- the transport
\* What urlopen does for one request (lines 40-48): a status and a body
\* (HTTPError included), or URLError re-raised as RuntimeError.
\* A state names a body by its place in BodyList.
Response(code, b) == [raises |-> FALSE, http_code |-> code, body |-> b]
TransportError == [raises |-> TRUE, http_code |-> "", body |-> 0]

Statuses == {"200", "429", "403", "500"}

TextBodies == <<T_empty, T_denied, T_abc, T_Quota, T_quot>>
BodyList == TextBodies \o DocTexts
BodyText(b) == BodyList[b]
BodyOf(text) == CHOOSE b \in 1..Len(BodyList) : BodyList[b] = text

\* the answers of the end-to-end scenario, and a failing connection
ScenarioResponses ==
    { Response("200", BodyOf(Dumps(D_valid))), Response("429", BodyOf(T_empty)),
      Response("403", BodyOf(T_denied)), TransportError }

AllResponses ==
    {Response(c, b) : c \in Statuses, b \in 1..Len(BodyList)} \cup {TransportError}

\* The remote ends a run is checked against.  A single key gets every answer.
\* Several keys get every mix of the scenario's answers when pacing is off; with
\* pacing on they all get the same answer, since wait() is over before the
\* request is made and its timing does not depend on the answers.
Transports(n, interval) ==
    (IF interval > 0
     THEN {[i \in 1..n |-> r] : r \in ScenarioResponses}
     ELSE [1..n -> ScenarioResponses])
    \cup (IF n = 1 THEN [1..n -> AllResponses] ELSE {})

\* ------------------------------------------------------------------ state
VARIABLES
    args,          \* parse_args(): [max_workers, min_interval, input, key]
    keys,          \* the validated key list, line 194
    transport,     \* the remote end: the answer to the probe of keys[i]
    main_pc,       \* where main() is: parse, start, loaded, submit, collect,
                   \* done, error
    total,         \* line 200
    passed,        \* line 201
    failed,        \* line 202
    active_keys,   \* line 203
    max_workers,   \* line 205
    min_interval,  \* RateLimiter.min_interval, line 162
    last_time,     \* RateLimiter._last_time, line 164
    lock,          \* RateLimiter._lock: 0 when free, else the task holding it
    clock,         \* time.monotonic(): the latest time any thread has seen
    last_return,   \* the time the latest wait() returned at, -1 before
    queue,         \* the executor's work queue
    futures,       \* futures[f] = (i, key), line 215
    task,          \* per call of check_key: its position, its locals, and how
                   \* often its wait() returned, committed, and it requested
    outcome,       \* per future: pending, a result or an exception
    collected,     \* the futures as_completed has yielded
    report         \* the lines printed at 234-235

vars ==
    << args, keys, transport, main_pc, total, passed, failed, active_keys,
       max_workers, min_interval, last_time, lock, clock, last_return,
       queue, futures, task, outcome, collected, report >>

NewTask ==
    [pc |-> "new", calls |-> 0, waited |-> 0, grants |-> 0, requests |-> 0,
     read |-> -1, now |-> -1, next_time |-> -1,
     classified |-> FALSE, exhausted |-> FALSE, is_ok |-> FALSE]

Pending == [state |-> "pending", is_ok |-> FALSE, response_text |-> <<>>]

\* The command lines a run is checked against.  n well-formed keys come as a
\* file of n lines; a single key also comes as the positional string, as --key,
\* and as --key beside an empty positional string.
ValidSources(n) ==
    {[input |-> FileInput([i \in 1..n |-> i]), key |-> 0]}
    \cup (IF n = 1
          THEN {[input |-> TextInput(1), key |-> 0],
                [input |-> NoInput, key |-> 1],
                [input |-> TextInput(LineOf(L_empty)), key |-> 1]}
          ELSE {})

\* the command lines load_keys or validate_keys dies on
ErrorSources ==
    {[input |-> TextInput(1), key |-> 1],
     [input |-> FileInput(<<1>>), key |-> 1],
     [input |-> NoInput, key |-> 0],
     [input |-> TextInput(LineOf(L_empty)), key |-> 0],
     [input |-> NoInput, key |-> LineOf(L_empty)],
     [input |-> FileInput(<<>>), key |-> 0]}
    \cup UNION {{[input |-> FileInput(<<b>>), key |-> 0],
                 [input |-> FileInput(<<1, b>>), key |-> 0],
                 [input |-> TextInput(b), key |-> 0],
                 [input |-> NoInput, key |-> b]} :
                   b \in {k \in LineIds : k > MaxKeys /\ KeyText(k) # <<>>}}

Sources == UNION {ValidSources(n) : n \in 1..MaxKeys} \cup ErrorSources

\* the keys a command line names, whether or not it is accepted
Named(src) == IF src.key # 0 /\ src.input.lines = <<>> THEN 1 ELSE Len(src.input.lines)

\* before parse_args() has run: no arguments, no keys, nothing to talk to
NoArgs == [max_workers |-> 0, min_interval |-> 0, input |-> NoInput, key |-> 0]

Init ==
    /\ args = NoArgs
    /\ keys = <<>>
    /\ transport = <<>>
    /\ task = <<>>
    /\ outcome = <<>>
    /\ main_pc = "parse"
    /\ total = 0
    /\ passed = 0
    /\ failed = 0
    /\ active_keys = <<>>
    /\ max_workers = 0
    /\ min_interval = 0
    /\ last_time = 0
    /\ lock = 0
    /\ clock = 0
    /\ last_return = -1
    /\ queue = <<>>
    /\ futures = <<>>
    /\ collected = {}
    /\ report = <<>>

\* line 193, args = parse_args(): the command line of this run, and with it
\* the remote end its probes will meet
ParseArgs ==
    /\ main_pc = "parse"
    /\ \E w \in 0..MaxWorkers, iv \in -1..MaxInterval, src \in Sources :
          /\ args' = [max_workers |-> w, min_interval |-> iv,
                      input |-> src.input, key |-> src.key]
          /\ LET n == Named(src)
             IN  /\ transport' \in
                       (IF validate_keys(load_keys(src)).ok
                        THEN Transports(n, iv)
                        ELSE {[i \in 1..n |-> Response("200", BodyOf(Dumps(D_valid)))]})
                 /\ task' = [i \in 1..n |-> NewTask]
                 /\ outcome' = [i \in 1..n |-> Pending]
    /\ main_pc' = "start"
    /\ UNCHANGED << keys, total, passed, failed, active_keys, max_workers,
                    min_interval, last_time, lock, clock, last_return, queue,
                    futures, collected, report >>

Min(a, b) == IF a < b THEN a ELSE b
Max(a, b) == IF a > b THEN a ELSE b

\* ------------------------------------------------------------------ main
\* line 194: keys = validate_keys(load_keys(args)), or the program dies
Load ==
    /\ main_pc = "start"
    /\ LET r == validate_keys(load_keys(args))
       IN  IF r.ok THEN main_pc' = "loaded" /\ keys' = r.lines
                   ELSE main_pc' = "error" /\ keys' = keys
    /\ UNCHANGED << args, transport, total, passed, failed, active_keys,
                    max_workers, min_interval, last_time, lock, clock, last_return,
                    queue, futures, task, outcome, collected, report >>

\* lines 196-205: the two checks, the counters, the limiter, the pool size
PoolSize_Max(w, n) == Max(w, n)

PoolSize(w, n) == Min(w, n)

Setup ==
    /\ main_pc = "loaded"
    /\ \/ /\ args.max_workers < 1 \/ args.min_interval < 0
          /\ main_pc' = "error"
          /\ UNCHANGED << total, max_workers, min_interval >>
       \/ /\ args.max_workers >= 1
          /\ args.min_interval >= 0
          /\ main_pc' = "submit"
          /\ total' = Len(keys)
          /\ min_interval' = Max(0, args.min_interval)
          /\ max_workers' = PoolSize(args.max_workers, Len(keys))
    /\ passed' = 0
    /\ failed' = 0
    /\ active_keys' = <<>>
    /\ last_time' = 0
    /\ UNCHANGED << args, keys, transport, lock, clock, last_return, queue, futures, task,
                    outcome, collected, report >>

\* lines 211-215: executor.submit for the next key
Submit ==
    /\ main_pc = "submit"
    /\ LET i == Len(futures) + 1
       IN  /\ queue' = Append(queue, i)
           /\ futures' = Append(futures, <<i, keys[i]>>)
           /\ task' = [task EXCEPT ![i].pc = "queued"]
           /\ main_pc' = IF i = total THEN "collect" ELSE "submit"
    /\ UNCHANGED << args, keys, transport, total, passed, failed, active_keys,
                    max_workers, min_interval, last_time, lock, clock, last_return, outcome,
                    collected, report >>

\* -------------------------------------------------------------- the pool
\* the calls of check_key a pool thread is executing
RunningPcs == {"wait", "locked", "sleep", "granted", "request"}
Running == {i \in DOMAIN task : task[i].pc \in RunningPcs}

\* a check_key without line 179: the request is made at once
Take_NoWait(i) ==
    /\ queue # <<>>
    /\ i = Head(queue)
    /\ Cardinality(Running) < max_workers
    /\ queue' = Tail(queue)
    /\ task' = [task EXCEPT ![i].pc = "request", ![i].calls = @ + 1]
    /\ UNCHANGED << args, keys, transport, main_pc, total, passed, failed,
                    active_keys, max_workers, min_interval, last_time, lock,
                    clock, last_return, futures, outcome, collected, report >>

\* ThreadPoolExecutor(max_workers), lines 207-209: a thread that is free takes
\* the oldest work item and calls check_key, which calls rate_limiter.wait()
Take(i) ==
    /\ queue # <<>>
    /\ i = Head(queue)
    /\ Cardinality(Running) < max_workers
    /\ queue' = Tail(queue)
    /\ task' = [task EXCEPT ![i].pc = "wait", ![i].calls = @ + 1]
    /\ UNCHANGED << args, keys, transport, main_pc, total, passed, failed,
                    active_keys, max_workers, min_interval, last_time, lock,
                    clock, last_return, futures, outcome, collected, report >>

\* ----------------------------------------------------------- RateLimiter
\* What a thread can read from time.monotonic(): no less than any time seen
\* before, and no more than MaxClock unless the least it can read is later.
Readings(least) == least..Max(least, MaxClock)

\* a wait() without the with block of line 169: nobody is kept out
WaitEnter_NoLock(i) ==
    /\ task[i].pc = "wait"
    /\ \/ /\ min_interval <= 0
          /\ task' = [task EXCEPT ![i].pc = "request", ![i].waited = @ + 1]
          /\ UNCHANGED lock
       \/ /\ min_interval > 0
          /\ lock' = i
          /\ task' = [task EXCEPT ![i].pc = "locked"]
    /\ UNCHANGED << args, keys, transport, main_pc, total, passed, failed,
                    active_keys, max_workers, min_interval, last_time, clock,
                    last_return, queue, futures, outcome, collected, report >>

\* a wait() without the early return of lines 167-168
WaitEnter_AlwaysLocks(i) ==
    /\ task[i].pc = "wait"
    /\ lock = 0
    /\ lock' = i
    /\ task' = [task EXCEPT ![i].pc = "locked"]
    /\ UNCHANGED << args, keys, transport, main_pc, total, passed, failed,
                    active_keys, max_workers, min_interval, last_time, clock,
                    last_return, queue, futures, outcome, collected, report >>

\* lines 167-169: return at once when pacing is off, else take the lock
WaitEnter(i) ==
    /\ task[i].pc = "wait"
    /\ \/ /\ min_interval <= 0
          /\ task' = [task EXCEPT ![i].pc = "request", ![i].waited = @ + 1]
          /\ UNCHANGED lock
       \/ /\ min_interval > 0
          /\ lock = 0
          /\ lock' = i
          /\ task' = [task EXCEPT ![i].pc = "locked"]
    /\ UNCHANGED << args, keys, transport, main_pc, total, passed, failed,
                    active_keys, max_workers, min_interval, last_time, clock,
                    last_return, queue, futures, outcome, collected, report >>

\* a wait() that never sleeps: the time read is committed as it is
WaitCompute_NoSleep(i) ==
    /\ task[i].pc = "locked"
    /\ \E now \in Readings(clock) :
          /\ clock' = now
          /\ last_time' = now
          /\ lock' = 0
          /\ task' = [task EXCEPT ![i].pc = "granted", ![i].grants = @ + 1, ![i].read = now, ![i].now = now,
                                  ![i].next_time = last_time + min_interval]
    /\ UNCHANGED << args, keys, transport, main_pc, total, passed, failed,
                    active_keys, max_workers, min_interval, last_return, queue,
                    futures, outcome, collected, report >>

\* lines 170-175 under the lock: read the clock, then either start to sleep
\* (172-173) or commit the time read and leave the with block (175)
WaitCompute(i) ==
    /\ task[i].pc = "locked"
    /\ \E now \in Readings(clock) :
          LET next_time == last_time + min_interval
          IN  /\ clock' = now
              /\ \/ /\ now < next_time
                    /\ task' = [task EXCEPT ![i].pc = "sleep", ![i].read = now,
                                            ![i].now = now, ![i].next_time = next_time]
                    /\ UNCHANGED << last_time, lock >>
                 \/ /\ ~(now < next_time)
                    /\ last_time' = now
                    /\ lock' = 0
                    /\ task' = [task EXCEPT ![i].pc = "granted", ![i].grants = @ + 1, ![i].read = now,
                                            ![i].now = now, ![i].next_time = next_time]
    /\ UNCHANGED << args, keys, transport, main_pc, total, passed, failed,
                    active_keys, max_workers, min_interval, last_return, queue,
                    futures, outcome, collected, report >>

\* a wait() without line 174: the time read before the sleep is committed
WaitWake_NoAdvance(i) ==
    /\ task[i].pc = "sleep"
    /\ \E woke \in Readings(Max(clock, task[i].next_time)) : clock' = woke
    /\ last_time' = task[i].now
    /\ task' = [task EXCEPT ![i].pc = "granted", ![i].grants = @ + 1]
    /\ lock' = 0
    /\ UNCHANGED << args, keys, transport, main_pc, total, passed, failed,
                    active_keys, max_workers, min_interval, last_return, queue,
                    futures, outcome, collected, report >>

\* a wait() that leaves the with block without releasing the lock
WaitWake_KeepsLock(i) ==
    /\ task[i].pc = "sleep"
    /\ \E woke \in Readings(Max(clock, task[i].next_time)) : clock' = woke
    /\ LET now == task[i].next_time
       IN  /\ last_time' = now
           /\ task' = [task EXCEPT ![i].pc = "granted", ![i].grants = @ + 1, ![i].now = now]
    /\ UNCHANGED << args, keys, transport, main_pc, total, passed, failed,
                    active_keys, max_workers, min_interval, last_return, queue,
                    futures, outcome, collected, report, lock >>

\* lines 173-175: time.sleep(next_time - now) ends, at next_time or later;
\* now = next_time is committed and the lock released
WaitWake(i) ==
    /\ task[i].pc = "sleep"
    /\ \E woke \in Readings(Max(clock, task[i].next_time)) : clock' = woke
    /\ LET now == task[i].next_time
       IN  /\ last_time' = now
           /\ task' = [task EXCEPT ![i].pc = "granted", ![i].grants = @ + 1, ![i].now = now]
    /\ lock' = 0
    /\ UNCHANGED << args, keys, transport, main_pc, total, passed, failed,
                    active_keys, max_workers, min_interval, last_return, queue,
                    futures, outcome, collected, report >>

\* wait() returns to check_key (line 179 is done) and its locals are gone
WaitReturn(i) ==
    /\ task[i].pc = "granted"
    /\ \E returned \in Readings(clock) :
          /\ clock' = returned
          /\ last_return' = returned
    /\ task' = [task EXCEPT ![i].pc = "request", ![i].waited = @ + 1,
                            ![i].read = -1, ![i].now = -1, ![i].next_time = -1]
    /\ UNCHANGED << args, keys, transport, main_pc, total, passed, failed,
                    active_keys, max_workers, min_interval, last_time, lock,
                    queue, futures, outcome, collected, report >>

\* ------------------------------------------------------------- check_key
\* run_request, lines 32-48
run_request(i) == transport[i]

\* lines 180-189 on the answer r: the future's outcome and the two locals
check_key(index, key, r) ==
    IF r.raises
    THEN [state |-> "exception", is_ok |-> FALSE, response_text |-> E_request_failed,
          classified |-> FALSE, exhausted |-> FALSE]
    ELSE LET body == BodyText(r.body)
             exhausted == is_exhausted(body, r.http_code)
             is_ok == r.http_code = "200" /\ ~exhausted
             response_text == extract_response_text(body)
         IN  IF response_text.kind = "raise"
             THEN [state |-> "exception", is_ok |-> is_ok,
                   response_text |-> response_text.text,
                   classified |-> TRUE, exhausted |-> exhausted]
             ELSE [state |-> "result", is_ok |-> is_ok,
                   response_text |-> response_text.text,
                   classified |-> TRUE, exhausted |-> exhausted]

\* what check_key comes to on each answer of the remote end, worked out once
\* (index and key are only passed through, lines 185-186)
Probed == [r \in AllResponses |-> check_key(0, 0, r)]

\* the request comes back and check_key runs to its end: the future is set
Request(i) ==
    /\ task[i].pc = "request"
    /\ LET c == Probed[run_request(i)]
       IN  /\ task' = [task EXCEPT ![i].pc = "done", ![i].requests = @ + 1,
                                   ![i].classified = c.classified,
                                   ![i].exhausted = c.exhausted, ![i].is_ok = c.is_ok]
           /\ outcome' = [outcome EXCEPT ![i] =
                 [state |-> c.state,
                  is_ok |-> IF c.state = "result" THEN c.is_ok ELSE FALSE,
                  response_text |-> c.response_text]]
    /\ UNCHANGED << args, keys, transport, main_pc, total, passed, failed,
                    active_keys, max_workers, min_interval, last_time, lock,
                    clock, last_return, queue, futures, collected, report >>

\* ------------------------------------------------------ main, the tallies
\* as_completed(futures), line 216: a finished future not yet yielded
AsCompleted_Any == {f \in 1..Len(futures) : f \notin collected}

AsCompleted == {f \in 1..Len(futures) : outcome[f].state # "pending" /\ f \notin collected}

\* a main() that counts a result only if no later key was handled before it
ResultOk_InOrder(f) ==
    IF outcome[f].state = "result"
    THEN outcome[f].is_ok /\ \A g \in collected : g < f
    ELSE FALSE

\* lines 218-224: the result's is_ok, or False when the future raised
ResultOk(f) == IF outcome[f].state = "result" THEN outcome[f].is_ok ELSE FALSE

\* lines 226-232: the two counters after one more completion
Passed_Lost(is_ok) == passed

Passed(is_ok) == IF is_ok THEN passed + 1 ELSE passed

Failed(is_ok) == IF is_ok THEN failed ELSE failed + 1

\* a report that numbers the lines as they are printed
Line_CompletionOrder(f, is_ok) ==
    [index |-> Len(report) + 1, total |-> total, passed |-> Passed(is_ok),
     failed |-> Failed(is_ok), status |-> IF is_ok THEN "PASS" ELSE "FAIL",
     key |-> futures[f][2], response_text |-> outcome[f].response_text]

\* the line printed at 234-235
Line(f, is_ok) ==
    [index |-> futures[f][1], total |-> total, passed |-> Passed(is_ok),
     failed |-> Failed(is_ok), status |-> IF is_ok THEN "PASS" ELSE "FAIL",
     key |-> futures[f][2], response_text |-> outcome[f].response_text]

\* a main() that re-submits a key whose probe did not pass
Collect_Retry(f) ==
    /\ main_pc = "collect"
    /\ f \in AsCompleted
    /\ IF ResultOk(f) \/ task[f].calls > 1
       THEN /\ passed' = Passed(ResultOk(f))
            /\ failed' = Failed(ResultOk(f))
            /\ active_keys' = IF ResultOk(f) THEN Append(active_keys, futures[f][2])
                                             ELSE active_keys
            /\ report' = Append(report, Line(f, ResultOk(f)))
            /\ collected' = collected \cup {f}
            /\ UNCHANGED << queue, task, outcome >>
       ELSE /\ queue' = Append(queue, f)
            /\ task' = [task EXCEPT ![f].pc = "queued"]
            /\ outcome' = [outcome EXCEPT ![f] = Pending]
            /\ UNCHANGED << passed, failed, active_keys, report, collected >>
    /\ UNCHANGED << args, keys, transport, main_pc, total, max_workers,
                    min_interval, last_time, lock, clock, last_return, futures >>

\* a main() without the try/except of lines 218-224
Collect_Propagates(f) ==
    /\ main_pc = "collect"
    /\ f \in AsCompleted
    /\ IF outcome[f].state = "exception"
       THEN /\ main_pc' = "error"
            /\ UNCHANGED << passed, failed, active_keys, report, collected >>
       ELSE /\ passed' = Passed(ResultOk(f))
            /\ failed' = Failed(ResultOk(f))
            /\ active_keys' = IF ResultOk(f) THEN Append(active_keys, futures[f][2])
                                             ELSE active_keys
            /\ report' = Append(report, Line(f, ResultOk(f)))
            /\ collected' = collected \cup {f}
            /\ UNCHANGED main_pc
    /\ UNCHANGED << args, keys, transport, total, max_workers, min_interval,
                    last_time, lock, clock, last_return, queue, futures, task,
                    outcome >>

\* lines 217-235 for the future f
Collect(f) ==
    /\ main_pc = "collect"
    /\ f \in AsCompleted
    /\ LET is_ok == ResultOk(f)
       IN  /\ passed' = Passed(is_ok)
           /\ failed' = Failed(is_ok)
           /\ active_keys' = IF is_ok THEN Append(active_keys, futures[f][2])
                                      ELSE active_keys
           /\ report' = Append(report, Line(f, is_ok))
    /\ collected' = collected \cup {f}
    /\ UNCHANGED << args, keys, transport, main_pc, total, max_workers,
                    min_interval, last_time, lock, clock, last_return, queue,
                    futures, task, outcome >>

\* lines 236-242: every future was yielded, the pool is shut down, the summary
\* is printed
Finish ==
    /\ main_pc = "collect"
    /\ collected = 1..Len(futures)
    /\ main_pc' = "done"
    /\ UNCHANGED << args, keys, transport, total, passed, failed, active_keys,
                    max_workers, min_interval, last_time, lock, clock, last_return, queue,
                    futures, task, outcome, collected, report >>

Next ==
    \/ ParseArgs
    \/ Load
    \/ Setup
    \/ Submit
    \/ \E i \in DOMAIN task : Take(i)
    \/ \E i \in DOMAIN task : WaitEnter(i)
    \/ \E i \in DOMAIN task : WaitCompute(i)
    \/ \E i \in DOMAIN task : WaitWake(i)
    \/ \E i \in DOMAIN task : WaitReturn(i)
    \/ \E i \in DOMAIN task : Request(i)
    \/ \E f \in DOMAIN task : Collect(f)
    \/ Finish

Spec == Init /\ [][Next]_vars

\* Fair scheduling: the interpreter keeps switching between main and the pool
\* threads, a sleep ends, and a request returns or raises (urlopen has
\* timeout=30, line 41); so a step that can be taken is not put off forever.
\* All that is assumed of it here is that the program does not stop while
\* some thread can take a step.
Fairness == WF_vars(Next)

FairSpec == Spec /\ Fairness

\* ================================================================ claims
N == Len(keys)

\* the lines printed for key i, and the status it was last reported with
LinesOf(i) == {k \in 1..Len(report) : report[k].index = i}
Reported(i) == LinesOf(i) # {}
StatusOf(i) == report[CHOOSE k \in LinesOf(i) : \A j \in LinesOf(i) : j <= k].status

\* C1: every key is probed (check_key is called for it) exactly once, whatever
\* its probe does: never twice, and once the run has ended never zero times.
C1_EachKeyProbedOnce ==
    /\ \A i \in 1..N : task[i].calls <= 1
    /\ main_pc = "done" => \A i \in 1..N : task[i].calls = 1

C1_Witness ==
    /\ main_pc = "done"
    /\ N = 3
    /\ \E i \in 1..N : outcome[i].state = "exception"
    /\ \E i \in 1..N : Reported(i) /\ StatusOf(i) = "FAIL" /\ outcome[i].state = "result"
    /\ \A i \in 1..N : task[i].calls = 1

\* C6: the probes running at one time (calls of check_key under way, a call
\* blocked in wait() included) never number more than min(max-workers, N).
C6_ConcurrencyBound ==
    Cardinality(Running) <= (IF args.max_workers < N THEN args.max_workers ELSE N)

C6_Witness ==
    /\ args.max_workers = 2
    /\ N = 3
    /\ Cardinality(Running) = 2
    /\ queue # <<>>

\* --- the RateLimiter
\* the step in which wait() returns to its caller i
Returning(i) == task[i].pc = "granted" /\ task'[i].pc = "request"

\* the step in which call i commits last_time (line 175)
Committing(i) == task[i].pc \in {"locked", "sleep"} /\ task'[i].pc = "granted"

\* C2 as stated: with pacing on, a wait() never returns less than min_interval
\* after the wait() that returned before it.
C2_ReturnsSpaced ==
    [][\A i \in 1..N :
          (min_interval > 0 /\ Returning(i) /\ last_return >= 0)
             => last_return' - last_return >= min_interval]_vars

\* C2, amended: with pacing on, a wait() never returns before the start time
\* it was granted (now, the value it committed), and that time is no earlier
\* than next_time, which is min_interval after the start time granted to the
\* call before it (the last_time read at line 171); the return itself may
\* come late.
C2_GrantsSpaced ==
    [][\A i \in 1..N :
          (min_interval > 0 /\ Returning(i))
             => /\ last_return' >= task[i].now
                /\ task[i].now >= task[i].next_time
                /\ task[i].now <= last_time]_vars

C2_Witness ==
    /\ min_interval > 0
    /\ Cardinality({i \in 1..N : task[i].pc \in {"request", "done"}}) >= 2
    /\ last_return >= 2 * min_interval
    /\ last_time >= 2 * min_interval

\* C10: a wait() that gets through commits, while it holds the lock, the later
\* of the time it read at line 170 and the previous last_time + min_interval;
\* last_time changes in no other way, so it never decreases and two successive
\* commits are at least min_interval apart.
C10_CommitRule ==
    [][/\ \A i \in 1..N :
             Committing(i)
                => /\ lock = i
                   /\ last_time' = (IF task'[i].read > last_time + min_interval
                                    THEN task'[i].read ELSE last_time + min_interval)
                   /\ last_time' - last_time >= min_interval
       /\ last_time' # last_time => \E i \in 1..N : Committing(i)
       /\ last_time' >= last_time]_vars

C10_Witness ==
    /\ min_interval > 0
    /\ \E i \in 1..N :
          /\ task[i].pc = "granted"
          /\ task[i].read < task[i].next_time
          /\ last_time = task[i].next_time
          /\ last_time >= 2 * min_interval
    /\ \E j \in 1..N : task[j].pc \in {"request", "done"}

\* --- classification
\* text s holds the lower-case word, in any mix of letter cases
HoldsWord(word, s) ==
    \E k \in 0..(Len(s) - Len(word)) :
       \A j \in 1..Len(word) :
          \/ s[k + j] = word[j]
          \/ s[k + j] \in DOMAIN UpperToLower /\ UpperToLower[s[k + j]] = word[j]

\* the classification rule of the specification, on a response
RuleExhausted(r) ==
    \/ r.http_code = "429"
    \/ HoldsWord(<<"q","u","o","t","a">>, BodyText(r.body))
    \/ HoldsWord(<<"r","e","s","o","u","r","c","e","_","e","x","h","a","u","s","t","e","d">>,
                 BodyText(r.body))

RuleUsable(r) == ~r.raises /\ r.http_code = "200" /\ ~RuleExhausted(r)

\* C3: a probe that got a response is exhausted exactly when the rule says so
\* (429, or the body holds "quota" or "resource_exhausted" in any letter case),
\* its is_ok is exactly (200 and not exhausted), and an exhausted probe is
\* reported FAIL.
C3_Classification ==
    \A i \in 1..N :
       task[i].classified
          => /\ task[i].exhausted = RuleExhausted(transport[i])
             /\ task[i].is_ok = (transport[i].http_code = "200" /\ ~RuleExhausted(transport[i]))
             /\ (transport[i].http_code = "429") => ~task[i].is_ok
             /\ (Reported(i) /\ task[i].exhausted) => StatusOf(i) = "FAIL"

C3_Witness ==
    \E i \in 1..N :
       /\ task[i].classified
       /\ transport[i].http_code = "200"
       /\ BodyText(transport[i].body) = T_Quota
       /\ task[i].exhausted
       /\ Reported(i)
       /\ StatusOf(i) = "FAIL"

\* C4 as stated: whatever body a response has, the key is reported PASS exactly
\* when the status is 200 and the response is not exhausted.
C4_DiagnosticNeverDecides ==
    \A i \in 1..N :
       (Reported(i) /\ ~transport[i].raises)
          => ((StatusOf(i) = "PASS") <=> RuleUsable(transport[i]))

\* --- the Dispatcher
\* the step in which main handles the completion of future f
Collecting(f) == f \notin collected /\ f \in collected'

\* C5: a probe that raised is reported FAIL with the exception's text, adds one
\* to the fail counter and leaves the pass counter and active_keys alone; main
\* never ends in error once a probe was submitted, and when the run ends every
\* key has its own report, PASS exactly for a probe that returned is_ok.
C5_ErrorsIsolated ==
    /\ [][\A f \in 1..N :
             (Collecting(f) /\ outcome[f].state = "exception")
                => /\ failed' = failed + 1
                   /\ passed' = passed
                   /\ active_keys' = active_keys
                   /\ report'[Len(report')].index = f
                   /\ report'[Len(report')].status = "FAIL"
                   /\ report'[Len(report')].response_text = outcome[f].response_text
                   /\ transport[f].raises => outcome[f].response_text = E_request_failed
                   /\ main_pc' = "collect"]_vars
    /\ [](/\ main_pc = "error" => futures = <<>>
          /\ \A i \in 1..N :
                /\ main_pc = "done" => Reported(i)
                /\ Reported(i) =>
                      (StatusOf(i) = "PASS" <=> (outcome[i].state = "result" /\ outcome[i].is_ok)))

C5_Witness ==
    /\ main_pc = "done"
    /\ N = 3
    /\ transport[report[1].index].raises
    /\ report[1].status = "FAIL"
    /\ report[1].response_text = E_request_failed
    /\ report[3].status = "PASS"
    /\ passed = 1
    /\ failed = 2

\* the state of key i in the state machine PENDING, RUNNING, PASS, FAIL
CredState(i) ==
    IF Reported(i) THEN StatusOf(i)
    ELSE IF task[i].calls > 0 THEN "RUNNING"
    ELSE "PENDING"

\* C7: a key changes state only PENDING -> RUNNING, RUNNING -> PASS or
\* RUNNING -> FAIL.
C7_StateMachine ==
    [][\A i \in 1..N :
          CredState(i)' # CredState(i)
             => <<CredState(i), CredState(i)'>> \in
                   { <<"PENDING", "RUNNING">>, <<"RUNNING", "PASS">>, <<"RUNNING", "FAIL">> }]_vars

C7_Witness ==
    /\ N = 3
    /\ \E i, j, k \in 1..N :
          CredState(i) = "PASS" /\ CredState(j) = "FAIL" /\ CredState(k) = "RUNNING"

\* C8 as stated: when the run has ended, passed is the number of usable probes
\* (status 200 and not exhausted), failed is N - passed, and active_keys holds
\* exactly the keys of the usable probes, one entry each.
C8_FinalAggregation ==
    main_pc = "done"
       => /\ passed = Cardinality({i \in 1..N : RuleUsable(transport[i])})
          /\ failed = N - passed
          /\ Len(active_keys) = passed
          /\ {active_keys[k] : k \in 1..Len(active_keys)}
                = {keys[i] : i \in {j \in 1..N : RuleUsable(transport[j])}}

\* C9: passed + failed is the number of completions handled, at most N;
\* active_keys is as long as passed; each completion handled adds one to
\* exactly one counter, and no counter ever decreases.
C9_RunningTallies ==
    /\ [](/\ passed + failed = Cardinality(collected)
          /\ passed + failed = Len(report)
          /\ passed + failed <= N
          /\ Len(active_keys) = passed)
    /\ [][/\ passed' >= passed
          /\ failed' >= failed
          /\ \A f \in 1..N :
                Collecting(f)
                   => \/ passed' = passed + 1 /\ failed' = failed
                      \/ passed' = passed /\ failed' = failed + 1]_vars

C9_Witness ==
    /\ main_pc = "collect"
    /\ passed = 1
    /\ failed = 1
    /\ Cardinality(collected) = 2
    /\ Cardinality(AsCompleted) = 1
    /\ Len(active_keys) = 1

\* --- the RateLimiter's critical section
\* the calls of wait() between the read of last_time (line 171) and its write
\* (line 175), the sleep included
InSection == {i \in 1..N : task[i].pc \in {"locked", "sleep"}}

\* the calls of wait() whose target next_time is computed and still a local
Targeted == {i \in 1..N : task[i].next_time >= 0}

\* C11: with pacing on, at most one call of wait() at a time is between reading
\* last_time and writing it back, and it is the one holding the lock; so at most
\* one call sleeps, and no two calls have computed the same target next_time.
C11_GateAtomic ==
    /\ Cardinality(InSection) <= 1
    /\ \A i \in 1..N : (i \in InSection) <=> (lock = i)
    /\ Cardinality({i \in 1..N : task[i].pc = "sleep"}) <= 1
    /\ \A i, j \in Targeted : i # j => task[i].next_time # task[j].next_time

C11_Witness ==
    /\ min_interval > 0
    /\ \E i, j, k \in 1..N :
          /\ task[i].pc = "sleep"
          /\ lock = i
          /\ task[j].pc = "wait"
          /\ task[k].pc = "done"
          /\ task[i].next_time = last_time + min_interval
          /\ last_time >= min_interval

\* C12: with pacing off (min_interval <= 0) wait() is a no-op: a call is never
\* kept waiting, never takes the lock, never sleeps or reads the clock, and
\* leaves last_time as it was.
C12_PacingOff ==
    /\ [](min_interval <= 0
            => /\ lock = 0
               /\ last_time = 0
               /\ \A i \in 1..N :
                     /\ task[i].pc \notin {"locked", "sleep", "granted"}
                     /\ task[i].pc = "wait" => ENABLED WaitEnter(i))
    /\ [][\A i \in 1..N :
             (min_interval <= 0 /\ task[i].pc = "wait" /\ task'[i].pc # "wait")
                => /\ task'[i].pc = "request"
                   /\ lock' = lock
                   /\ last_time' = last_time
                   /\ clock' = clock]_vars

C12_Witness ==
    /\ args.min_interval = 0
    /\ min_interval = 0
    /\ main_pc = "collect"
    /\ Cardinality({i \in 1..N : task[i].pc = "request"}) = 2
    /\ \E i \in 1..N : task[i].pc = "done"
    /\ last_time = 0

\* --- the diagnostic text
\* C13 as stated: extract_response_text raises on no body; a probe that got a
\* response always ends with a result, never with an exception.
C13_ExtractNeverRaises ==
    \A i \in 1..N :
       (task[i].pc = "done" /\ ~transport[i].raises)
          => /\ extract_response_text(BodyText(transport[i].body)).kind = "return"
             /\ outcome[i].state = "result"

\* the envelope as the specification reads it: an object whose candidates, if
\* any, are a list of objects with an object content holding a list parts of
\* objects, and whose error, if any, is an object
IsAbsent(x) == x.t = "null"

WellShaped(doc) ==
    /\ doc.t = "dict"
    /\ LET cands == DictGet(doc, K_candidates)
           error == DictGet(doc, K_error)
       IN  /\ IsAbsent(error) \/ error.t = "dict"
           /\ \/ IsAbsent(cands)
              \/ /\ cands.t = "list"
                 /\ \A k \in 1..Len(cands.v) :
                       /\ cands.v[k].t = "dict"
                       /\ LET content == DictGet(cands.v[k], K_content)
                          IN  \/ IsAbsent(content)
                              \/ /\ content.t = "dict"
                                 /\ LET parts == DictGet(content, K_parts)
                                    IN  \/ IsAbsent(parts)
                                        \/ /\ parts.t = "list"
                                           /\ \A p \in 1..Len(parts.v) : parts.v[p].t = "dict"

\* the generated text of the first candidate and the error message, <<>> when
\* the document has none
FirstText(doc) ==
    LET cands == DictGet(doc, K_candidates)
    IN  IF IsAbsent(cands) \/ cands.v = <<>> THEN <<>>
        ELSE LET content == DictGet(cands.v[1], K_content)
        IN  IF IsAbsent(content) THEN <<>>
        ELSE LET parts == DictGet(content, K_parts)
        IN  IF IsAbsent(parts) \/ parts.v = <<>> THEN <<>>
        ELSE LET text == DictGet(parts.v[1], K_text)
        IN  IF text.t = "str" THEN text.v ELSE <<>>

HasMessage(doc) ==
    LET error == DictGet(doc, K_error)
    IN  ~IsAbsent(error) /\ DictGet(error, K_message).t = "str"

\* the diagnostic the specification asks for: the first candidate's text if
\* not empty, else error.message if present, else the raw body, each trimmed
SpecDiagnostic(body) ==
    LET parsed == json_loads(body)
        doc == parsed.payload
    IN  IF ~parsed.ok THEN Strip(body)
        ELSE IF FirstText(doc) # <<>> THEN Strip(FirstText(doc))
        ELSE IF HasMessage(doc) THEN Strip(DictGet(DictGet(doc, K_error), K_message).v)
        ELSE Strip(body)

\* C14 as stated: for a body that is not JSON or is a well-shaped envelope, the
\* diagnostic reported is the first candidate's text if not empty, else
\* error.message, else the raw body, each trimmed.
C14_Precedence ==
    \A i \in 1..N :
       LET body == BodyText(transport[i].body)
           parsed == json_loads(body)
       IN  (task[i].pc = "done" /\ ~transport[i].raises
              /\ (parsed.ok => WellShaped(parsed.payload)))
              => outcome[i].response_text = SpecDiagnostic(body)

\* --- the run as a function of its input
\* what the probe of key i comes to, from the key list and the transport alone
DeterminedOk(i) ==
    LET c == check_key(i, keys[i], run_request(i))
    IN  c.state = "result" /\ c.is_ok

\* C15: the pass count, the fail count and the set of active keys a run ends
\* with are determined by the key list and the transport alone, whatever the
\* worker limit, the interval and the interleaving; so any two runs on the same
\* input end with the same counts and the same set.  The order of active_keys
\* is not determined.
C15_ScheduleIndependent ==
    main_pc = "done"
       => /\ passed = Cardinality({i \in 1..N : DeterminedOk(i)})
          /\ failed = Cardinality({i \in 1..N : ~DeterminedOk(i)})
          /\ {active_keys[k] : k \in 1..Len(active_keys)}
                = {keys[i] : i \in {j \in 1..N : DeterminedOk(j)}}

C15_Witness ==
    /\ main_pc = "done"
    /\ N = 3
    /\ args.max_workers = 2
    /\ passed = 2
    /\ failed = 1
    /\ active_keys = << keys[3], keys[1] >>

\* C16: every line of the report carries the index and the key its task was
\* submitted with (futures[f] = (i, key), line 215) and that task's own outcome,
\* whatever the order of completion; no index is reported twice, and when the
\* run has ended the indices reported are exactly 1..N.
C16_OriginalIndex ==
    /\ \A k \in 1..Len(report) :
          LET i == report[k].index
          IN  /\ i \in 1..N
              /\ i \in collected
              /\ futures[i] = << i, keys[i] >>
              /\ report[k].key = keys[i]
              /\ report[k].total = N
              /\ report[k].response_text = outcome[i].response_text
    /\ \A k, l \in 1..Len(report) : k # l => report[k].index # report[l].index
    /\ main_pc = "done" => {report[k].index : k \in 1..Len(report)} = 1..N

C16_Witness ==
    /\ main_pc = "done"
    /\ N = 3
    /\ report[1].index = 3
    /\ report[2].index = 1
    /\ report[3].index = 2
    /\ report[1].key = keys[3]
    /\ report[1].status # report[2].status

\* --- configuration errors
\* a value was given on the command line (an empty string gives nothing)
InputGiven == args.input.kind = "file" \/ (args.input.kind = "text" /\ KeyText(args.input.lines[1]) # <<>>)
KeyGiven == args.key # 0 /\ KeyText(args.key) # <<>>

\* the pattern [A-Za-z0-9_-]{20,} of the specification
MatchesPattern(text) == Len(text) >= 20 /\ ~\E k \in 1..Len(text) : text[k] \notin KeyChars

\* the keys the command line names
NamedKeys == IF KeyGiven THEN <<args.key>> ELSE args.input.lines

InputError ==
    \/ ~InputGiven /\ ~KeyGiven
    \/ InputGiven /\ KeyGiven
    \/ \E k \in 1..Len(NamedKeys) : ~MatchesPattern(KeyText(NamedKeys[k]))

ConfigError == args.max_workers < 1 \/ args.min_interval < 0 \/ InputError

\* nothing was submitted, no call of check_key or wait() was made, no request
\* was issued
Quiet ==
    /\ futures = <<>>
    /\ queue = <<>>
    /\ report = <<>>
    /\ lock = 0
    /\ last_time = 0
    /\ clock = 0
    /\ \A i \in DOMAIN task : task[i] = NewTask /\ outcome[i] = Pending

\* C17: with a worker count < 1, an interval < 0, no input, both an input and
\* --key, or a key that does not match the pattern, the program never gets past
\* its checks: its only steps are to the error state (an input in error does
\* not even get to the checks of the two numbers), and nothing is submitted,
\* no wait() is called and no request issued.
C17_ConfigErrorsFatal ==
    /\ [](/\ ConfigError => (main_pc \in {"parse", "start", "loaded", "error"} /\ Quiet)
          /\ InputError => main_pc \in {"parse", "start", "error"}
          /\ main_pc = "error" => Quiet)
    /\ [][(main_pc # "parse" /\ ConfigError /\ main_pc' # main_pc)
             => \/ main_pc' = "error"
                \/ main_pc' = "loaded" /\ ~InputError]_vars

C17_Witness ==
    /\ main_pc = "error"
    /\ args.max_workers >= 1
    /\ args.min_interval >= 0
    /\ args.input = FileInput(<<1, LineOf(L_short)>>)
    /\ args.key = 0
    /\ Len(task) = 2

\* --- the gate before the request
\* the probes whose request was issued, and the grants the gate committed
Started == {i \in 1..N : task[i].pc = "request" \/ task[i].requests > 0}
Granted == {i \in 1..N : task[i].grants > 0}

\* C18: a probe's request is issued only after that probe's own call of wait()
\* has returned; a probe calls wait() once and requests once; with pacing on
\* the wait() that returned had committed a grant, so the requests issued
\* never outnumber the grants committed.
C18_GatedStart ==
    /\ \A i \in 1..N :
          /\ task[i].waited <= 1
          /\ task[i].grants <= 1
          /\ task[i].requests <= task[i].waited
          /\ i \in Started => task[i].waited = 1
          /\ task[i].pc = "done" => task[i].requests = 1
          /\ (min_interval > 0 /\ task[i].waited = 1) => task[i].grants = 1
    /\ min_interval > 0 => Cardinality(Started) <= Cardinality(Granted)

C18_Witness ==
    /\ min_interval > 0
    /\ \E i, j, k \in 1..N :
          /\ task[i].pc = "done"
          /\ task[j].pc = "request"
          /\ task[k].pc = "granted"
    /\ Cardinality(Started) = 2
    /\ Cardinality(Granted) = 3

\* --- termination
\* key i has a call of wait() under way
InWait(i) == i \in DOMAIN task /\ task[i].pc \in {"wait", "locked", "sleep", "granted"}

\* the run has ended with every key reported PASS or FAIL
Ended ==
    /\ main_pc = "done"
    /\ passed + failed = N
    /\ \A i \in 1..N : Reported(i) /\ StatusOf(i) \in {"PASS", "FAIL"}

\* C19: under fair scheduling every run ends; a run that passed its checks
\* (N >= 1, W >= 1, min_interval >= 0) cannot end in error, so it ends with
\* every key reported PASS or FAIL and passed + failed = N; and at that end
\* every call of wait() has returned and every probe is over, so no worker
\* stayed in wait().
C19_Termination ==
    /\ <>(main_pc = "error" \/ Ended)
    /\ [][(main_pc \in {"submit", "collect", "done"}) => (main_pc' # "error")]_vars
    /\ [](main_pc = "error" => (ConfigError \/ args.input.lines = <<>>))
    /\ [](main_pc = "done"
            => \A i \in 1..N : ~InWait(i) /\ task[i].pc = "done" /\ task[i].waited = 1)

C19_Witness ==
    /\ Ended
    /\ N = 3
    /\ args.max_workers = 2
    /\ min_interval > 0
    /\ last_time >= 3 * min_interval
    /\ \A i \in 1..N : task[i].grants = 1
    /\ passed + failed = 3
    /\ report[1].index # 1

=============================================================================
